---- MODULE Spec2Model ----
(***************************************************************************)
(* Model of exchange/c2cx.com/client.go: the c2cx Client, its trading      *)
(* operations (Buy, Sell, Cancel, CancelAll, CancelMarket) and its update   *)
(* loop (Update, checkUpdate) with the order-status sweep and the           *)
(* order-book sweep.                                                        *)
(*                                                                          *)
(* The remote gateway (CreateOrder, CancelOrder, GetOrderByStatus,          *)
(* GetOrderBook) is an opaque venue: every call either fails or returns a   *)
(* result drawn from a small set.  exchange.OrderTracker and                *)
(* exchange.OrderBookTracker live in package exchange, outside client.go;   *)
(* they are modelled from the capability description of the specification.  *)
(***************************************************************************)
EXTENDS Integers, Sequences, FiniteSets, TLC

\* ------------------------------------------------------------------------
\* Bounds of the model
\* ------------------------------------------------------------------------
MaxOrders == 3        \* ids the venue hands out when only trading operations run
MaxSweepOrders == 1   \* ids the venue hands out while the update loop runs
MaxTicks == 2         \* ticks delivered by the ticker
MaxFetch == 1         \* orders returned by one GetOrderByStatus call
MaxRestarts == 1      \* calls of Update after the first one

\* ------------------------------------------------------------------------
\* Data
\* ------------------------------------------------------------------------
StatusSubmitted == "submitted"
StatusOpened == "opened"
StatusPartial == "partial"
StatusCancelled == "cancelled"
StatusCompleted == "completed"

ActionBuy == "buy"
ActionSell == "sell"

\* package variable of c2cx ranged over by checkUpdate: the polled statuses
Statusees == {StatusOpened, StatusPartial, StatusCancelled, StatusCompleted}

\* the canonical symbols of the venue
Symbols == {"btc_usdt", "eth_usdt"}
Terminal == {StatusCancelled, StatusCompleted}
Live == {StatusSubmitted, StatusOpened, StatusPartial}

Nil == "nil"
RemoteError == "RemoteError"
InvalidSymbol == "InvalidSymbol"
NotTracked == "NotTracked"

\* inputs of the callers
RawSymbols == {"BTC/USDT", "eth_usdt", "doge"}
Prices == {100}
Amounts == {2}
\* epoch seconds the venue reports as CreateDate
CreateDates == {7}

\* the snapshot of a symbol that was never fetched
EmptySnapshot == [Bids |-> <<>>, Asks |-> <<>>]

\* time.Time, as seconds and nanoseconds; ZeroTime is the zero value
ZeroTime == [sec |-> 0, nsec |-> 0]

\* normalize(symbol): the canonical venue symbol, or an error
normalize(raw) ==
  CASE raw = "BTC/USDT" -> [sym |-> "btc_usdt", err |-> Nil]
    [] raw = "eth_usdt" -> [sym |-> "eth_usdt", err |-> Nil]
    [] OTHER -> [sym |-> "", err |-> InvalidSymbol]

\* unixToTime(order.CreateDate)
unixToTime(d) == [sec |-> d, nsec |-> 0]

VARIABLES
  allowed,      \* package variable of c2cx: the symbols checkUpdate polls
  hasTracker,   \* c.Tracker != nil
  hasBook,      \* c.OrderBookTracker != nil
  tracker,      \* c.Tracker: order id -> OrderInfo
  book,         \* c.OrderBookTracker: symbol -> snapshot
  ret,          \* what the last trading call returned
  cancelCalls,  \* the CancelOrder calls of the current/last trading call, with their results
  batch,        \* CancelAll / CancelMarket in progress
  schedPc,      \* where Update is: "idle", "select", "wait", "returned"
  ticks,        \* ticks consumed so far; the cycle number
  stopOffered,  \* a sender is blocked on c.Stop
  sem,          \* number of tokens buffered in the channel c.sem refers to
  run,          \* calls of Update so far; names the channel c.sem refers to
  oldSem,       \* tokens buffered in the channels c.sem referred to before
  starts,       \* history: order-book sweeps that have started their fetches
  bookWriter,   \* history: symbol -> the start number of the sweep that wrote its snapshot
  wg,           \* the WaitGroup counter of the order-status sweep
  orderTasks,   \* running order-status goroutines
  fetchFailed,  \* history: a GetOrderByStatus call of the current cycle has failed
  staleReport,  \* history: a sweep has reported another status for a terminal order
  sweepers      \* order-book sweep goroutines

vars == <<allowed, hasTracker, hasBook, tracker, book, ret, cancelCalls, batch,
          schedPc, ticks, stopOffered, sem, run, oldSem, starts, bookWriter, wg,
          orderTasks, fetchFailed, staleReport, sweepers>>

tradeVars == <<tracker, ret, cancelCalls, batch>>
schedVars == <<schedPc, ticks, stopOffered>>
orderSweepVars == <<wg, orderTasks, fetchFailed, staleReport>>
bookVars == <<book, sem, sweepers>>
semVars == <<run, oldSem>>
histVars == <<starts, bookWriter>>
cfgVars == <<allowed, hasTracker, hasBook>>

\* the order ids of the venue when only trading operations run
OrderIds == 1..MaxOrders

\* the order ids of the venue while the update loop runs; the venue can report
\* one of them before this client has placed the order that gets it
SweepIds == 1..MaxSweepOrders

\* time.Now(): the clock advances with the ticker
Now == [sec |-> 1000 + ticks, nsec |-> 0]

\* ------------------------------------------------------------------------
\* exchange.OrderTracker
\* ------------------------------------------------------------------------
Tracked(trk, id) == id \in DOMAIN trk

TrackerNewOrder(trk, symbol, action, status, id, amount, price, at) ==
  [i \in (DOMAIN trk) \cup {id} |->
     IF i = id
     THEN [OrderID |-> id, TradePair |-> symbol, Action |-> action,
           Status |-> status, Amount |-> amount, Price |-> price,
           createdAt |-> at, completedAt |-> ZeroTime]
     ELSE trk[i]]

\* a Tracker whose Cancel overwrites a terminal status
TrackerCancelAny(trk, id) ==
  IF Tracked(trk, id)
  THEN [trk EXCEPT ![id].Status = StatusCancelled]
  ELSE trk

TrackerCancel(trk, id) ==
  IF Tracked(trk, id) /\ trk[id].Status \notin Terminal
  THEN [trk EXCEPT ![id].Status = StatusCancelled]
  ELSE trk

\* a Tracker whose Complete stamps a completed order again
TrackerCompleteRestamps(trk, id, at) ==
  IF Tracked(trk, id) /\ trk[id].Status # StatusCancelled
  THEN [trk EXCEPT ![id].Status = StatusCompleted, ![id].completedAt = at]
  ELSE trk

TrackerComplete(trk, id, at) ==
  IF Tracked(trk, id) /\ trk[id].Status \notin Terminal
  THEN [trk EXCEPT ![id].Status = StatusCompleted, ![id].completedAt = at]
  ELSE trk

\* a Tracker whose UpdateOrderDetails moves the order one status further
TrackerUpdateOrderDetailsAdvances(trk, id, symbol, accepted) ==
  IF Tracked(trk, id) /\ trk[id].Status \notin Terminal
  THEN [trk EXCEPT ![id].Status = IF @ = StatusSubmitted THEN StatusOpened ELSE StatusPartial,
                   ![id].createdAt = accepted]
  ELSE trk

TrackerUpdateOrderDetails(trk, id, symbol, accepted) ==
  IF Tracked(trk, id) /\ trk[id].Status \notin Terminal
  THEN [trk EXCEPT ![id].Status = StatusOpened, ![id].createdAt = accepted]
  ELSE trk

NoOrderInfo ==
  [OrderID |-> 0, TradePair |-> "", Action |-> "", Status |-> "",
   Amount |-> 0, Price |-> 0, createdAt |-> ZeroTime, completedAt |-> ZeroTime]

TrackerGet(trk, id) ==
  IF Tracked(trk, id)
  THEN [order |-> trk[id], err |-> Nil]
  ELSE [order |-> NoOrderInfo, err |-> NotTracked]

\* ids of the orders Executed() lists
ExecutedIds(trk) == {id \in DOMAIN trk : trk[id].Status \in Live}

\* the orders in which a slice can list the ids of S
Orderings(S) ==
  {q \in [1..Cardinality(S) -> S] : \A i, j \in 1..Cardinality(S) : i # j => q[i] # q[j]}

\* ------------------------------------------------------------------------
\* Trading operations
\* ------------------------------------------------------------------------
NoRet == [op |-> "none", id |-> 0, err |-> Nil, orders |-> <<>>]
NoBatch == [op |-> "none", symbol |-> "", orders |-> <<>>, next |-> 1, result |-> <<>>]

\* CreateOrder(...): the venue assigns an id it has not used, or fails
CreateOrderResults(trk, cap) ==
  {[id |-> 0, err |-> RemoteError]}
    \cup {[id |-> i, err |-> Nil] : i \in {j \in 1..cap : j \notin DOMAIN trk}}

\* CancelOrder(key, secret, id)
CancelOrderResults == {Nil, RemoteError}

\* Place with the order registered before the error of CreateOrder is looked at
PlaceRecordsOnFailure(op, side, action, raw, price, amount, cap) ==
  /\ hasTracker
  /\ batch = NoBatch
  /\ LET n == normalize(raw) IN
     IF n.err # Nil
     THEN /\ ret' = [op |-> op, id |-> 0, err |-> n.err, orders |-> <<>>]
          /\ tracker' = tracker
     ELSE \E out \in CreateOrderResults(tracker, cap) :
            /\ tracker' = TrackerNewOrder(tracker, n.sym, action, StatusSubmitted,
                                          out.id, amount, price, Now)
            /\ ret' = [op |-> op, id |-> out.id, err |-> out.err, orders |-> <<>>]
  /\ cancelCalls' = <<>>
  /\ UNCHANGED <<batch, book, sem, sweepers>>
  /\ UNCHANGED <<cfgVars, schedVars, orderSweepVars>>
  /\ UNCHANGED <<semVars, histVars>>

\* the common body of Buy and Sell
Place(op, side, action, raw, price, amount, cap) ==
  /\ hasTracker
  /\ batch = NoBatch
  /\ LET n == normalize(raw) IN
     IF n.err # Nil
     THEN /\ ret' = [op |-> op, id |-> 0, err |-> n.err, orders |-> <<>>]
          /\ tracker' = tracker
     ELSE \E out \in CreateOrderResults(tracker, cap) :
            IF out.err # Nil
            THEN /\ ret' = [op |-> op, id |-> out.id, err |-> out.err, orders |-> <<>>]
                 /\ tracker' = tracker
            ELSE /\ tracker' = TrackerNewOrder(tracker, n.sym, action, StatusSubmitted,
                                               out.id, amount, price, Now)
                 /\ ret' = [op |-> op, id |-> out.id, err |-> Nil, orders |-> <<>>]
  /\ cancelCalls' = <<>>
  /\ UNCHANGED <<batch, book, sem, sweepers>>
  /\ UNCHANGED <<cfgVars, schedVars, orderSweepVars>>
  /\ UNCHANGED <<semVars, histVars>>

Buy(raw, price, amount, cap) == Place("Buy", "buy", ActionBuy, raw, price, amount, cap)

Sell(raw, price, amount, cap) == Place("Sell", "sell", ActionSell, raw, price, amount, cap)

\* Cancel that updates the Tracker whatever CancelOrder returned
CancelCallIgnoresRemote(trk, orderID, remote) ==
  LET t2 == TrackerCancel(trk, orderID)
      g == TrackerGet(t2, orderID)
  IN [tracker |-> t2, order |-> g.order, err |-> IF remote # Nil THEN remote ELSE g.err]

\* Cancel that drops the error of the Tracker lookup
CancelCallDropsLookupErr(trk, orderID, remote) ==
  IF remote # Nil
  THEN [tracker |-> trk, order |-> NoOrderInfo, err |-> remote]
  ELSE LET t2 == TrackerCancel(trk, orderID)
       IN [tracker |-> t2, order |-> TrackerGet(t2, orderID).order, err |-> Nil]

\* Client.Cancel as a function of the tracker and of the remote outcome
CancelCall(trk, orderID, remote) ==
  IF remote # Nil
  THEN [tracker |-> trk, order |-> NoOrderInfo, err |-> remote]
  ELSE LET t2 == TrackerCancel(trk, orderID)
           g == TrackerGet(t2, orderID)
       IN [tracker |-> t2, order |-> g.order, err |-> g.err]

Cancel(orderID) ==
  /\ hasTracker
  /\ batch = NoBatch
  /\ \E remote \in CancelOrderResults :
       LET r == CancelCall(tracker, orderID, remote) IN
       /\ tracker' = r.tracker
       /\ ret' = [op |-> "Cancel", id |-> orderID, err |-> r.err,
                  orders |-> IF remote = Nil THEN <<r.order>> ELSE <<>>]
       /\ cancelCalls' = <<[id |-> orderID, err |-> remote]>>
  /\ UNCHANGED <<batch, book, sem, sweepers>>
  /\ UNCHANGED <<cfgVars, schedVars, orderSweepVars>>
  /\ UNCHANGED <<semVars, histVars>>

\* CancelAll: orders := c.Tracker.Executed()
CancelAllBegin ==
  /\ hasTracker
  /\ batch = NoBatch
  /\ \E q \in Orderings(ExecutedIds(tracker)) :
       batch' = [op |-> "CancelAll", symbol |-> "", orders |-> q, next |-> 1, result |-> <<>>]
  /\ ret' = NoRet
  /\ cancelCalls' = <<>>
  /\ UNCHANGED <<tracker, book, sem, sweepers>>
  /\ UNCHANGED <<cfgVars, schedVars, orderSweepVars>>
  /\ UNCHANGED <<semVars, histVars>>

\* CancelMarket: normalize, then orders := c.Tracker.Executed()
CancelMarketBegin(raw) ==
  /\ hasTracker
  /\ batch = NoBatch
  /\ LET n == normalize(raw) IN
     IF n.err # Nil
     THEN /\ ret' = [op |-> "CancelMarket", id |-> 0, err |-> n.err, orders |-> <<>>]
          /\ batch' = batch
     ELSE /\ \E q \in Orderings(ExecutedIds(tracker)) :
               batch' = [op |-> "CancelMarket", symbol |-> n.sym, orders |-> q,
                         next |-> 1, result |-> <<>>]
          /\ ret' = NoRet
  /\ cancelCalls' = <<>>
  /\ UNCHANGED <<tracker, book, sem, sweepers>>
  /\ UNCHANGED <<cfgVars, schedVars, orderSweepVars>>
  /\ UNCHANGED <<semVars, histVars>>

\* does the loop body cancel this element of orders
BatchSelects(b, trk, id) ==
  b.op = "CancelAll" \/ trk[id].TradePair = b.symbol

\* the loop going on to the next order after a failed Cancel
BatchStepContinues ==
  /\ batch # NoBatch
  /\ batch.next <= Len(batch.orders)
  /\ LET id == batch.orders[batch.next] IN
     IF ~BatchSelects(batch, tracker, id)
     THEN /\ batch' = [batch EXCEPT !.next = @ + 1]
          /\ UNCHANGED <<tracker, ret, cancelCalls>>
     ELSE \E remote \in CancelOrderResults :
            LET r == CancelCall(tracker, id, remote) IN
            /\ tracker' = r.tracker
            /\ cancelCalls' = Append(cancelCalls, [id |-> id, err |-> remote])
            /\ batch' = [batch EXCEPT !.next = @ + 1,
                                      !.result = IF r.err = Nil THEN Append(@, r.order) ELSE @]
            /\ ret' = ret
  /\ UNCHANGED <<book, sem, sweepers>>
  /\ UNCHANGED <<cfgVars, schedVars, orderSweepVars>>
  /\ UNCHANGED <<semVars, histVars>>

\* one iteration of the range loop of CancelAll / CancelMarket
BatchStep ==
  /\ batch # NoBatch
  /\ batch.next <= Len(batch.orders)
  /\ LET id == batch.orders[batch.next] IN
     IF ~BatchSelects(batch, tracker, id)
     THEN /\ batch' = [batch EXCEPT !.next = @ + 1]
          /\ UNCHANGED <<tracker, ret, cancelCalls>>
     ELSE \E remote \in CancelOrderResults :
            LET r == CancelCall(tracker, id, remote) IN
            /\ tracker' = r.tracker
            /\ cancelCalls' = Append(cancelCalls, [id |-> id, err |-> remote])
            /\ IF r.err # Nil
               THEN /\ ret' = [op |-> batch.op, id |-> 0, err |-> r.err,
                               orders |-> batch.result]
                    /\ batch' = NoBatch
               ELSE /\ batch' = [batch EXCEPT !.next = @ + 1,
                                              !.result = Append(@, r.order)]
                    /\ ret' = ret
  /\ UNCHANGED <<book, sem, sweepers>>
  /\ UNCHANGED <<cfgVars, schedVars, orderSweepVars>>
  /\ UNCHANGED <<semVars, histVars>>

\* return result, nil
BatchReturn ==
  /\ batch # NoBatch
  /\ batch.next > Len(batch.orders)
  /\ ret' = [op |-> batch.op, id |-> 0, err |-> Nil, orders |-> batch.result]
  /\ batch' = NoBatch
  /\ UNCHANGED <<tracker, cancelCalls, book, sem, sweepers>>
  /\ UNCHANGED <<cfgVars, schedVars, orderSweepVars>>
  /\ UNCHANGED <<semVars, histVars>>

\* ------------------------------------------------------------------------
\* checkUpdate: the order-status sweep
\* ------------------------------------------------------------------------
\* the goroutines one call of checkUpdate starts for the Tracker
OrderTasksOf(cycle) ==
  {[sym |-> allowed[i], status |-> s, cycle |-> cycle] : i \in 1..Len(allowed), s \in Statusees}

\* a record of the venue as GetOrderByStatus returns it
VenueOrders(trk, sym) ==
  {[OrderID |-> id, CreateDate |-> d] :
     id \in {i \in SweepIds : Tracked(trk, i) => trk[i].TradePair = sym},
     d \in CreateDates}

SeqsUpTo(S, n) == UNION {[1..k -> S] : k \in 0..n}

\* the lists a successful GetOrderByStatus(key, secret, sym, status, -1) can return
FetchResults(trk, sym) == SeqsUpTo(VenueOrders(trk, sym), MaxFetch)

\* a switch without the case of exchange.StatusCompleted
ApplyOrderSkipsCompleted(trk, status, symbol, order, now) ==
  CASE status \in {StatusOpened, StatusPartial} ->
         TrackerUpdateOrderDetails(trk, order.OrderID, symbol, unixToTime(order.CreateDate))
    [] status = StatusCancelled -> TrackerCancel(trk, order.OrderID)
    [] OTHER -> trk

\* the switch of the range loop, for one order
ApplyOrder(trk, status, symbol, order, now) ==
  CASE status \in {StatusOpened, StatusPartial} ->
         TrackerUpdateOrderDetails(trk, order.OrderID, symbol, unixToTime(order.CreateDate))
    [] status = StatusCancelled -> TrackerCancel(trk, order.OrderID)
    [] status = StatusCompleted -> TrackerComplete(trk, order.OrderID, now)
    [] OTHER -> trk

\* the range loop over the fetched orders
RECURSIVE ApplyOrders(_, _, _, _, _)
ApplyOrders(trk, status, symbol, orders, now) ==
  IF orders = <<>> THEN trk
  ELSE ApplyOrders(ApplyOrder(trk, status, symbol, Head(orders), now),
                   status, symbol, Tail(orders), now)

\* does the loop process an order that is terminal in the Tracker under another status
RECURSIVE ReportsStale(_, _, _, _, _)
ReportsStale(trk, status, symbol, orders, now) ==
  IF orders = <<>> THEN FALSE
  ELSE \/ /\ Tracked(trk, Head(orders).OrderID)
          /\ trk[Head(orders).OrderID].Status \in Terminal
          /\ trk[Head(orders).OrderID].Status # status
       \/ ReportsStale(ApplyOrder(trk, status, symbol, Head(orders), now),
                       status, symbol, Tail(orders), now)

\* a failing task that returns without w.Done()
OrderTaskFailNoDone(t) ==
  /\ t \in orderTasks
  /\ orderTasks' = orderTasks \ {t}
  /\ wg' = wg
  /\ fetchFailed' = TRUE
  /\ UNCHANGED staleReport
  /\ UNCHANGED <<tradeVars, schedVars, bookVars, cfgVars>>
  /\ UNCHANGED <<semVars, histVars>>

\* a task whose GetOrderByStatus fails: warning, return, deferred w.Done()
OrderTaskFail(t) ==
  /\ t \in orderTasks
  /\ orderTasks' = orderTasks \ {t}
  /\ wg' = wg - 1
  /\ fetchFailed' = TRUE
  /\ UNCHANGED staleReport
  /\ UNCHANGED <<tradeVars, schedVars, bookVars, cfgVars>>
  /\ UNCHANGED <<semVars, histVars>>

\* a task whose GetOrderByStatus succeeds: the loop, then the deferred w.Done()
OrderTaskRun(t, orders) ==
  /\ t \in orderTasks
  /\ orders \in FetchResults(tracker, t.sym)
  /\ tracker' = ApplyOrders(tracker, t.status, t.sym, orders, Now)
  /\ orderTasks' = orderTasks \ {t}
  /\ wg' = wg - 1
  /\ staleReport' = (staleReport \/ ReportsStale(tracker, t.status, t.sym, orders, Now))
  /\ UNCHANGED <<ret, cancelCalls, batch, fetchFailed>>
  /\ UNCHANGED <<schedVars, bookVars, cfgVars>>
  /\ UNCHANGED <<semVars, histVars>>

\* ------------------------------------------------------------------------
\* checkUpdate: the order-book sweep
\* ------------------------------------------------------------------------
\* capacity of c.sem
SemCap == 1

\* what GetOrderBook can return as bids and asks
Snapshots ==
  {[Bids |-> <<<<99, 1>>>>, Asks |-> <<<<101, 1>>>>],
   [Bids |-> <<<<98, 2>>>>, Asks |-> <<<<102, 2>>>>]}

\* an UpdateSym that writes the bids and keeps the asks it had
BookUpdateSymKeepsAsks(bk, sym, bids, asks) == [bk EXCEPT ![sym].Bids = bids]

\* OrderBookTracker.UpdateSym(sym, bids, asks)
BookUpdateSym(bk, sym, bids, asks) == [bk EXCEPT ![sym] = [Bids |-> bids, Asks |-> asks]]

AllowedSet == {allowed[i] : i \in 1..Len(allowed)}

\* the sweep goroutine as checkUpdate starts it, about to send on c.sem
NewSweeper(cycle) ==
  [cycle |-> cycle, run |-> run, ch |-> 0, start |-> 0, pc |-> "acquire", wg |-> 0,
   pre |-> <<>>, res |-> <<>>]

\* tokens buffered in the channel that the ch-th call of Update made
SemCount(ch) == IF ch = run THEN sem ELSE oldSem[ch]

\* the channels a read of the field c.sem by a sweep goroutine can return:
\* Update writes the field without synchronisation, so the goroutine sees the
\* channel of the run that started it or one written since
SemSeen(s) == s.run..run

\* a send on the channel ch: one more token in its buffer
SemSend(ch) ==
  /\ SemCount(ch) < SemCap
  /\ IF ch = run
     THEN sem' = sem + 1 /\ oldSem' = oldSem
     ELSE oldSem' = [oldSem EXCEPT ![ch] = @ + 1] /\ sem' = sem

\* a receive on the channel ch: one token less in its buffer
SemReceive(ch) ==
  /\ SemCount(ch) > 0
  /\ IF ch = run
     THEN sem' = sem - 1 /\ oldSem' = oldSem
     ELSE oldSem' = [oldSem EXCEPT ![ch] = @ - 1] /\ sem' = sem

Replace(S, old, new) == (S \ {old}) \cup {new}

\* a sweep that gives up when c.sem has no free slot
SweepAcquireOrDrop(s) ==
  /\ s \in sweepers
  /\ s.pc = "acquire"
  /\ IF sem < SemCap
     THEN /\ sem' = sem + 1
          /\ sweepers' = Replace(sweepers, s,
                [s EXCEPT !.pc = "fetch", !.ch = run, !.start = starts + 1,
                          !.wg = Len(allowed), !.pre = book,
                          !.res = [sym \in AllowedSet |->
                                     [state |-> "running", snap |-> EmptySnapshot]]])
          /\ starts' = starts + 1
     ELSE /\ sem' = sem
          /\ sweepers' = sweepers \ {s}
          /\ starts' = starts
  /\ UNCHANGED <<book, bookWriter>>
  /\ UNCHANGED <<tradeVars, schedVars, orderSweepVars, cfgVars>>
  /\ UNCHANGED semVars

\* a sweep that starts its fetches without waiting for the slot of c.sem
SweepAcquireNoToken(s) ==
  /\ s \in sweepers
  /\ s.pc = "acquire"
  /\ sem' = sem + 1
  /\ sweepers' = Replace(sweepers, s,
        [s EXCEPT !.pc = "fetch", !.ch = run, !.start = starts + 1,
                  !.wg = Len(allowed), !.pre = book,
                  !.res = [sym \in AllowedSet |-> [state |-> "running", snap |-> EmptySnapshot]]])
  /\ starts' = starts + 1
  /\ UNCHANGED <<book, bookWriter>>
  /\ UNCHANGED <<tradeVars, schedVars, orderSweepVars, cfgVars>>
  /\ UNCHANGED semVars

\* c.sem <- struct{}{}; wg.Add(len(allowed)); one goroutine per symbol
SweepAcquire(s) ==
  /\ s \in sweepers
  /\ s.pc = "acquire"
  /\ \E ch \in SemSeen(s) :
       /\ SemSend(ch)
       /\ sweepers' = Replace(sweepers, s,
             [s EXCEPT !.pc = "fetch", !.ch = ch, !.start = starts + 1,
                       !.wg = Len(allowed), !.pre = book,
                       !.res = [sym \in AllowedSet |->
                                  [state |-> "running", snap |-> EmptySnapshot]]])
  /\ starts' = starts + 1
  /\ UNCHANGED <<book, run, bookWriter>>
  /\ UNCHANGED <<tradeVars, schedVars, orderSweepVars, cfgVars>>

\* a failing symbol goroutine that stores the empty result of the failed call
BookTaskFailClears(s, sym) ==
  /\ s \in sweepers
  /\ s.pc = "fetch"
  /\ sym \in DOMAIN s.res
  /\ s.res[sym].state = "running"
  /\ book' = BookUpdateSym(book, sym, <<>>, <<>>)
  /\ bookWriter' = [bookWriter EXCEPT ![sym] = s.start]
  /\ sweepers' = Replace(sweepers, s,
        [s EXCEPT !.wg = @ - 1, !.res[sym].state = "failed"])
  /\ UNCHANGED <<sem, starts>>
  /\ UNCHANGED <<tradeVars, schedVars, orderSweepVars, cfgVars>>
  /\ UNCHANGED semVars

\* a symbol goroutine whose GetOrderBook fails: return, deferred w.Done()
BookTaskFail(s, sym) ==
  /\ s \in sweepers
  /\ s.pc = "fetch"
  /\ sym \in DOMAIN s.res
  /\ s.res[sym].state = "running"
  /\ sweepers' = Replace(sweepers, s,
        [s EXCEPT !.wg = @ - 1, !.res[sym].state = "failed"])
  /\ UNCHANGED <<book, sem>>
  /\ UNCHANGED <<tradeVars, schedVars, orderSweepVars, cfgVars>>
  /\ UNCHANGED <<semVars, histVars>>

\* a symbol goroutine whose GetOrderBook succeeds: UpdateSym, deferred w.Done()
BookTaskUpdate(s, sym, orders) ==
  /\ s \in sweepers
  /\ s.pc = "fetch"
  /\ sym \in DOMAIN s.res
  /\ s.res[sym].state = "running"
  /\ book' = BookUpdateSym(book, sym, orders.Bids, orders.Asks)
  /\ bookWriter' = [bookWriter EXCEPT ![sym] = s.start]
  /\ sweepers' = Replace(sweepers, s,
        [s EXCEPT !.wg = @ - 1, !.res[sym] = [state |-> "updated", snap |-> orders]])
  /\ UNCHANGED <<sem, starts>>
  /\ UNCHANGED <<tradeVars, schedVars, orderSweepVars, cfgVars>>
  /\ UNCHANGED semVars

\* wg.Wait() returns; <-c.sem
SweepRelease(s) ==
  /\ s \in sweepers
  /\ s.pc = "fetch"
  /\ s.wg = 0
  /\ \E ch \in SemSeen(s) : SemReceive(ch)
  /\ sweepers' = sweepers \ {s}
  /\ UNCHANGED <<book, run>>
  /\ UNCHANGED <<tradeVars, schedVars, orderSweepVars, cfgVars, histVars>>

\* ------------------------------------------------------------------------
\* Update: the ticker loop
\* ------------------------------------------------------------------------
\* c.sem = make(chan struct{}, 1); t := time.NewTicker(...)
Update ==
  /\ schedPc = "idle"
  /\ schedPc' = "select"
  /\ sem' = 0
  /\ run' = run + 1
  /\ UNCHANGED <<ticks, stopOffered, book, sweepers, oldSem>>
  /\ UNCHANGED <<tradeVars, orderSweepVars, cfgVars, histVars>>

\* Update called again after it has returned: c.sem refers to a new channel,
\* the one it referred to keeps its tokens
UpdateAgain ==
  /\ schedPc = "returned"
  /\ run <= MaxRestarts
  /\ schedPc' = "select"
  /\ sem' = 0
  /\ run' = run + 1
  /\ oldSem' = Append(oldSem, sem)
  /\ UNCHANGED <<ticks, stopOffered, book, sweepers>>
  /\ UNCHANGED <<tradeVars, orderSweepVars, cfgVars, histVars>>

\* case <-t.C: c.checkUpdate(), up to wg.Wait()
checkUpdate ==
  /\ schedPc = "select"
  /\ ticks < MaxTicks
  /\ ticks' = ticks + 1
  /\ IF hasBook
     THEN sweepers' = sweepers \cup {NewSweeper(ticks + 1)}
     ELSE sweepers' = sweepers
  /\ IF hasTracker
     THEN /\ wg' = Len(allowed) * Cardinality(Statusees)
          /\ orderTasks' = orderTasks \cup OrderTasksOf(ticks + 1)
          /\ fetchFailed' = FALSE
          /\ UNCHANGED staleReport
          /\ schedPc' = "wait"
     ELSE /\ UNCHANGED orderSweepVars
          /\ schedPc' = "select"
  /\ UNCHANGED <<stopOffered, book, sem>>
  /\ UNCHANGED <<tradeVars, cfgVars>>
  /\ UNCHANGED <<semVars, histVars>>

\* case <-t.C: c.checkUpdate() for a client without OrderBookTracker, with the
\* ticks after the MaxTicks-th: they are handled as the MaxTicks-th was, the
\* clock of the model stands still
checkUpdateSteady ==
  IF ticks < MaxTicks
  THEN checkUpdate
  ELSE /\ schedPc = "select"
       /\ hasTracker
       /\ ~hasBook
       /\ wg' = Len(allowed) * Cardinality(Statusees)
       /\ orderTasks' = orderTasks \cup OrderTasksOf(ticks)
       /\ fetchFailed' = FALSE
       /\ schedPc' = "wait"
       /\ UNCHANGED <<ticks, stopOffered, staleReport>>
       /\ UNCHANGED <<tradeVars, bookVars, cfgVars, semVars, histVars>>

\* checkUpdate returning without wg.Wait()
checkUpdateReturnNoWait ==
  /\ schedPc = "wait"
  /\ schedPc' = "select"
  /\ UNCHANGED <<ticks, stopOffered>>
  /\ UNCHANGED <<tradeVars, orderSweepVars, bookVars, cfgVars>>
  /\ UNCHANGED <<semVars, histVars>>

\* a checkUpdate whose wg.Wait() also covered the order-book sweep goroutine
checkUpdateReturnWaitsForBook ==
  /\ schedPc = "wait"
  /\ wg = 0
  /\ sweepers = {}
  /\ schedPc' = "select"
  /\ UNCHANGED <<ticks, stopOffered>>
  /\ UNCHANGED <<tradeVars, orderSweepVars, bookVars, cfgVars>>
  /\ UNCHANGED <<semVars, histVars>>

\* wg.Wait() returns and checkUpdate with it
checkUpdateReturn ==
  /\ schedPc = "wait"
  /\ wg = 0
  /\ schedPc' = "select"
  /\ UNCHANGED <<ticks, stopOffered>>
  /\ UNCHANGED <<tradeVars, orderSweepVars, bookVars, cfgVars>>
  /\ UNCHANGED <<semVars, histVars>>

\* somebody sends on c.Stop
StopSend ==
  /\ ~stopOffered
  /\ schedPc \in {"select", "wait"}
  /\ stopOffered' = TRUE
  /\ UNCHANGED <<schedPc, ticks>>
  /\ UNCHANGED <<tradeVars, orderSweepVars, bookVars, cfgVars>>
  /\ UNCHANGED <<semVars, histVars>>

\* a stop case that stops the ticker and goes on with the loop
UpdateStopKeepsLooping ==
  /\ schedPc = "select"
  /\ stopOffered
  /\ stopOffered' = FALSE
  /\ schedPc' = "select"
  /\ UNCHANGED ticks
  /\ UNCHANGED <<tradeVars, orderSweepVars, bookVars, cfgVars>>
  /\ UNCHANGED <<semVars, histVars>>

\* a stop case that also ends the order-book sweep goroutines
UpdateStopCancelsSweeps ==
  /\ schedPc = "select"
  /\ stopOffered
  /\ stopOffered' = FALSE
  /\ schedPc' = "returned"
  /\ sweepers' = {}
  /\ sem' = 0
  /\ UNCHANGED <<ticks, book>>
  /\ UNCHANGED <<tradeVars, orderSweepVars, cfgVars>>
  /\ UNCHANGED <<semVars, histVars>>

\* case <-c.Stop: t.Stop(); return
UpdateStop ==
  /\ schedPc = "select"
  /\ stopOffered
  /\ stopOffered' = FALSE
  /\ schedPc' = "returned"
  /\ UNCHANGED ticks
  /\ UNCHANGED <<tradeVars, orderSweepVars, bookVars, cfgVars>>
  /\ UNCHANGED <<semVars, histVars>>

\* ------------------------------------------------------------------------
\* Initial states
\* ------------------------------------------------------------------------
InitCfg(syms, t, b) ==
  /\ allowed = syms
  /\ hasTracker = t
  /\ hasBook = b
  /\ tracker = <<>>
  /\ book = [s \in Symbols |-> EmptySnapshot]
  /\ ret = NoRet
  /\ cancelCalls = <<>>
  /\ batch = NoBatch
  /\ schedPc = "idle"
  /\ ticks = 0
  /\ stopOffered = FALSE
  /\ sem = 0
  /\ wg = 0
  /\ orderTasks = {}
  /\ fetchFailed = FALSE
  /\ staleReport = FALSE
  /\ sweepers = {}
  /\ run = 0
  /\ oldSem = <<>>
  /\ starts = 0
  /\ bookWriter = [s \in Symbols |-> 0]

\* A client with a Tracker whose Update has not been called
InitTrade == InitCfg(<<"btc_usdt", "eth_usdt">>, TRUE, FALSE)

NextTrade ==
  \/ \E raw \in RawSymbols, p \in Prices, a \in Amounts : Buy(raw, p, a, MaxOrders)
  \/ \E raw \in RawSymbols, p \in Prices, a \in Amounts : Sell(raw, p, a, MaxOrders)
  \/ \E id \in OrderIds : Cancel(id)
  \/ CancelAllBegin
  \/ \E raw \in RawSymbols : CancelMarketBegin(raw)
  \/ BatchStep
  \/ BatchReturn

SpecTrade == InitTrade /\ [][NextTrade]_vars

\* A client with a Tracker and no OrderBookTracker that polls one symbol
InitOrders == InitCfg(<<"btc_usdt">>, TRUE, FALSE)

NextOrders ==
  \/ \E raw \in RawSymbols, p \in Prices, a \in Amounts : Buy(raw, p, a, MaxSweepOrders)
  \/ Update
  \/ checkUpdate
  \/ checkUpdateReturn
  \/ StopSend
  \/ UpdateStop
  \/ \E t \in orderTasks : OrderTaskFail(t)
  \/ \E t \in orderTasks : \E orders \in FetchResults(tracker, t.sym) : OrderTaskRun(t, orders)

SpecOrders == InitOrders /\ [][NextOrders]_vars

\* The same client, whose caller also cancels orders
NextCancel ==
  \/ NextOrders
  \/ \E id \in SweepIds : Cancel(id)

SpecCancel == InitOrders /\ [][NextCancel]_vars

\* A client with an OrderBookTracker and no Tracker that polls two symbols
InitBook == InitCfg(<<"btc_usdt", "eth_usdt">>, FALSE, TRUE)

NextBook ==
  \/ Update
  \/ checkUpdate
  \/ StopSend
  \/ UpdateStop
  \/ \E s \in sweepers : SweepAcquire(s)
  \/ \E s \in sweepers, sym \in Symbols : BookTaskFail(s, sym)
  \/ \E s \in sweepers, sym \in Symbols, orders \in Snapshots : BookTaskUpdate(s, sym, orders)
  \/ \E s \in sweepers : SweepRelease(s)

SpecBook == InitBook /\ [][NextBook]_vars

\* a client with an OrderBookTracker on which Update is called again after
\* it has returned
NextRestart ==
  \/ Update
  \/ UpdateAgain
  \/ checkUpdate
  \/ StopSend
  \/ UpdateStop
  \/ \E s \in sweepers : SweepAcquire(s)
  \/ \E s \in sweepers, sym \in Symbols : BookTaskFail(s, sym)
  \/ \E s \in sweepers, sym \in Symbols, orders \in Snapshots : BookTaskUpdate(s, sym, orders)
  \/ \E s \in sweepers : SweepRelease(s)

SpecRestart == InitBook /\ [][NextRestart]_vars

\* a GetOrderBook call of a running symbol goroutine returns
BookFetchReturns ==
  \E s \in sweepers, sym \in Symbols :
    \/ BookTaskFail(s, sym)
    \/ \E orders \in Snapshots : BookTaskUpdate(s, sym, orders)

\* the sweep goroutine of a cycle gets its send on c.sem through
SweepAcquires(cycle) == \E s \in sweepers : s.cycle = cycle /\ SweepAcquire(s)

\* Every GetOrderBook call returns, a sweep whose wg.Wait() has returned goes
\* on to its receive, and a sender blocked on c.sem is not passed over for
\* ever (the senders blocked on a channel are served in the order in which
\* they arrived).  Nothing is assumed of the scheduler.
FairBook ==
  /\ SpecBook
  /\ WF_vars(BookFetchReturns)
  /\ WF_vars(\E s \in sweepers : SweepRelease(s))
  /\ \A cycle \in 1..MaxTicks : SF_vars(SweepAcquires(cycle))

\* The client of InitOrders at a venue that fills every buy order at once and
\* cancels every sell order at once, for good: a successful fetch of (symbol,
\* completed) lists every buy order placed on the symbol, a successful fetch
\* of (symbol, cancelled) lists every sell order, and no fetch lists an order
\* of this client under another status
FetchedIds(orders) == {orders[i].OrderID : i \in 1..Len(orders)}

\* the status the venue reports for the order for good
VenueVerdict(o) == IF o.Action = ActionBuy THEN StatusCompleted ELSE StatusCancelled

PlacedOn(trk, sym, status) ==
  {id \in DOMAIN trk : trk[id].TradePair = sym /\ VenueVerdict(trk[id]) = status}

FinalVenueResults(trk, t) ==
  {orders \in FetchResults(trk, t.sym) :
     /\ PlacedOn(trk, t.sym, t.status) \subseteq FetchedIds(orders)
     /\ \A st \in Terminal \ {t.status} : PlacedOn(trk, t.sym, st) \cap FetchedIds(orders) = {}}

\* a GetOrderByStatus call returns at that venue, with an error or a list
ConvergeFetchReturns ==
  \E t \in orderTasks :
    /\ orderTasks' = orderTasks \ {t}
    /\ \/ OrderTaskFail(t)
       \/ \E orders \in FinalVenueResults(tracker, t) : OrderTaskRun(t, orders)

\* the GetOrderByStatus call for a pair (symbol, status) succeeds
FinalFetchSucceeds(status) ==
  \E t \in orderTasks :
    /\ t.status = status
    /\ orderTasks' = orderTasks \ {t}
    /\ \E orders \in FinalVenueResults(tracker, t) : OrderTaskRun(t, orders)

NextConverge ==
  \/ \E p \in Prices, a \in Amounts : Buy("BTC/USDT", p, a, MaxSweepOrders)
  \/ \E p \in Prices, a \in Amounts : Sell("BTC/USDT", p, a, MaxSweepOrders)
  \/ Update
  \/ checkUpdateSteady
  \/ checkUpdateReturn
  \/ ConvergeFetchReturns

SpecConverge == InitOrders /\ [][NextConverge]_vars

\* Update is called and the scheduler keeps ticking; every GetOrderByStatus
\* call returns; the calls for (symbol, completed) do not fail for ever, nor
\* do those for (symbol, cancelled)
FairConverge ==
  /\ SpecConverge
  /\ WF_vars(Update)
  /\ WF_vars(checkUpdateSteady)
  /\ WF_vars(checkUpdateReturn)
  /\ WF_vars(ConvergeFetchReturns)
  /\ SF_vars(FinalFetchSucceeds(StatusCompleted))
  /\ SF_vars(FinalFetchSucceeds(StatusCancelled))

\* A client with a Tracker and an OrderBookTracker that polls one symbol and
\* whose caller places no orders
InitLoop == InitCfg(<<"btc_usdt">>, TRUE, TRUE)

\* a GetOrderByStatus call of a running order-status goroutine returns
OrderFetchReturns ==
  \E t \in orderTasks :
    /\ orderTasks' = orderTasks \ {t}
    /\ \/ OrderTaskFail(t)
       \/ \E orders \in FetchResults(tracker, t.sym) : OrderTaskRun(t, orders)

NextLoop ==
  \/ Update
  \/ checkUpdate
  \/ checkUpdateReturn
  \/ StopSend
  \/ UpdateStop
  \/ OrderFetchReturns
  \/ \E s \in sweepers : SweepAcquire(s)
  \/ \E s \in sweepers, sym \in Symbols : BookTaskFail(s, sym)
  \/ \E s \in sweepers, sym \in Symbols, orders \in Snapshots : BookTaskUpdate(s, sym, orders)
  \/ \E s \in sweepers : SweepRelease(s)

SpecLoop == InitLoop /\ [][NextLoop]_vars

\* The scheduler goroutine runs, every GetOrderByStatus call returns, and the
\* select of Update, which picks at random among its ready cases, does not
\* pass over a stop signal for ever.  Nothing is assumed of the order-book
\* sweep: a GetOrderBook call may never return.
FairLoop ==
  /\ SpecLoop
  /\ WF_vars(checkUpdateReturn)
  /\ WF_vars(OrderFetchReturns)
  /\ SF_vars(UpdateStop)

\* ------------------------------------------------------------------------
\* Properties
\* ------------------------------------------------------------------------
PlaceStep(raw, p, a) == Buy(raw, p, a, MaxOrders) \/ Sell(raw, p, a, MaxOrders)

\* what a Buy or Sell step must leave behind
PlacePost(raw, p, a) ==
  LET n == normalize(raw)
      id == ret'.id
  IN /\ n.err # Nil => ret'.err = n.err
     /\ ret'.err # Nil => tracker' = tracker
     /\ ret'.err = Nil =>
          /\ DOMAIN tracker' = (DOMAIN tracker) \cup {id}
          /\ \A i \in DOMAIN tracker : i # id => tracker'[i] = tracker[i]
          /\ tracker'[id].OrderID = id
          /\ tracker'[id].Status = StatusSubmitted
          /\ tracker'[id].TradePair = n.sym
          /\ tracker'[id].Action = (IF ret'.op = "Buy" THEN ActionBuy ELSE ActionSell)
          /\ tracker'[id].Amount = a
          /\ tracker'[id].Price = p

\* C1: a Buy or Sell that returns an error (normalization or CreateOrder failed)
\* leaves the Tracker as it was; one that returns an id leaves exactly the old
\* entries plus one entry under that id, with status submitted and the supplied
\* symbol, side, amount and price.
C1_PlaceAtomic ==
  [][\A raw \in RawSymbols, p \in Prices, a \in Amounts :
       (ret'.op \in {"Buy", "Sell"} /\ PlaceStep(raw, p, a)) => PlacePost(raw, p, a)]_vars

C1_Witness ==
  /\ ret.op = "Sell"
  /\ ret.err = Nil
  /\ ret.id \in DOMAIN tracker
  /\ tracker[ret.id].Status = StatusSubmitted
  /\ tracker[ret.id].Action = ActionSell
  /\ Cardinality(DOMAIN tracker) = 2

\* the sweeps that hold the token of c.sem
Holders == {s \in sweepers : s.pc = "fetch"}

\* the order-book fetch goroutines that are running, as <<cycle, symbol>>
RunningBookTasks ==
  UNION {{<<s.cycle, sym>> : sym \in {y \in DOMAIN s.res : s.res[y].state = "running"}} :
           s \in Holders}

\* C2: during one run of Update at most one order-book sweep holds the token
\* of c.sem, and no two order-book fetch goroutines for the same symbol are
\* running at the same time.
C2_SingleFlight ==
  /\ Cardinality(Holders) <= 1
  /\ \A t1, t2 \in RunningBookTasks : t1[2] = t2[2] => t1 = t2

C2_Witness ==
  /\ \E s \in Holders : \E sym \in DOMAIN s.res : s.res[sym].state = "running"
  /\ \E w \in sweepers : w.pc = "acquire"
  /\ sem = SemCap

\* a step of an order-status goroutine
OrderSweepStep ==
  \E t \in orderTasks \ orderTasks' :
    \/ OrderTaskFail(t)
    \/ \E orders \in FetchResults(tracker, t.sym) : OrderTaskRun(t, orders)

C4_CancelTerminalFails ==
  [][\A id \in SweepIds :
       (/\ id \in DOMAIN tracker
        /\ tracker[id].Status = StatusCompleted
        /\ Cancel(id)) =>
         /\ ret'.err # Nil
         /\ tracker'[id].Status = StatusCompleted]_vars

\* C5: a Cancel whose remote CancelOrder call fails returns the error of that
\* call and leaves the Tracker as it was.
C5_CancelRemoteFailure ==
  [][\A id \in OrderIds :
       (ret'.op = "Cancel" /\ ret'.id = id /\ Cancel(id) /\ cancelCalls'[1].err # Nil) =>
         /\ ret'.err = cancelCalls'[1].err
         /\ tracker' = tracker]_vars

C5_Witness ==
  /\ ret.op = "Cancel"
  /\ ret.err = RemoteError
  /\ cancelCalls = <<[id |-> ret.id, err |-> RemoteError]>>
  /\ ret.id \in DOMAIN tracker
  /\ tracker[ret.id].Status \in Live

\* C6: a Cancel of an id the Tracker has no entry for, whose remote CancelOrder
\* call is accepted, returns the NotTracked error of the lookup; it has issued
\* that one remote call and no other, and the Tracker is as it was, without an
\* entry for the id.
C6_CancelUntracked ==
  [][\A id \in OrderIds :
       (/\ id \notin DOMAIN tracker
        /\ ret'.op = "Cancel"
        /\ ret'.id = id
        /\ Cancel(id)
        /\ cancelCalls'[1].err = Nil) =>
         /\ ret'.err = NotTracked
         /\ cancelCalls' = <<[id |-> id, err |-> Nil]>>
         /\ tracker' = tracker
         /\ id \notin DOMAIN tracker']_vars

C6_Witness ==
  /\ ret.op = "Cancel"
  /\ ret.err = NotTracked
  /\ cancelCalls = <<[id |-> ret.id, err |-> Nil]>>
  /\ ret.id \notin DOMAIN tracker
  /\ DOMAIN tracker # {}

\* the orders of the batch that its loop cancels, in the order of the loop
RECURSIVE SelectedOf(_, _, _)
SelectedOf(b, trk, q) ==
  IF q = <<>> THEN <<>>
  ELSE IF BatchSelects(b, trk, Head(q))
       THEN <<Head(q)>> \o SelectedOf(b, trk, Tail(q))
       ELSE SelectedOf(b, trk, Tail(q))

\* C7: when the k-th remote cancel of a CancelAll or CancelMarket fails, the
\* batch returns at once with that error and with the k-1 orders cancelled
\* before it, in order; it has called CancelOrder for the first k orders only,
\* and the k-th and all later orders are still live in the Tracker.
C7_BatchStopsAtFirstFailure ==
  [][(/\ batch # NoBatch
      /\ BatchStep
      /\ Len(cancelCalls') > Len(cancelCalls)
      /\ cancelCalls'[Len(cancelCalls')].err # Nil) =>
       LET sel == SelectedOf(batch, tracker, batch.orders)
           k == Len(cancelCalls')
       IN /\ batch' = NoBatch
          /\ ret'.op = batch.op
          /\ ret'.err = cancelCalls'[k].err
          /\ Len(ret'.orders) = k - 1
          /\ \A j \in 1..(k - 1) :
               /\ ret'.orders[j].OrderID = sel[j]
               /\ ret'.orders[j].Status = StatusCancelled
               /\ tracker'[sel[j]].Status = StatusCancelled
               /\ cancelCalls'[j] = [id |-> sel[j], err |-> Nil]
          /\ cancelCalls'[k].id = sel[k]
          /\ \A j \in k..Len(sel) : tracker'[sel[j]].Status \in Live]_vars

C7_Witness ==
  /\ ret.op = "CancelMarket"
  /\ ret.err = RemoteError
  /\ Len(ret.orders) = 1
  /\ Len(cancelCalls) = 2
  /\ LET sym == ret.orders[1].TradePair
         onSym == {id \in DOMAIN tracker : tracker[id].TradePair = sym}
     IN /\ sym = "eth_usdt"
        /\ Cardinality(onSym) = 3
        /\ Cardinality({id \in onSym : tracker[id].Status \in Live}) = 2
        /\ tracker[ret.orders[1].OrderID].Status = StatusCancelled

\* C8: while Update is not inside checkUpdate no order-status goroutine is
\* running, and all the order-status goroutines that run belong to the cycle
\* of the last tick.
C8_NoOverlap ==
  /\ schedPc # "wait" => orderTasks = {}
  /\ \A t \in orderTasks : t.cycle = ticks
  /\ \A t1, t2 \in orderTasks : t1.cycle = t2.cycle

C8_Witness ==
  /\ ticks = 2
  /\ schedPc = "wait"
  /\ orderTasks # {}
  /\ orderTasks # OrderTasksOf(2)

\* what a successful task leaves in the Tracker for the orders it fetched
AppliedAll(t, orders) ==
  \A i \in 1..Len(orders) :
    LET id == orders[i].OrderID IN
    (id \in DOMAIN tracker /\ tracker[id].Status \in Live) =>
      /\ t.status \in Terminal => tracker'[id].Status = t.status
      /\ t.status \notin Terminal => tracker'[id].createdAt = unixToTime(orders[i].CreateDate)

\* C9: a task whose fetch fails changes nothing in the Tracker and stops no
\* other task; the tasks of a cycle in which a fetch has failed still apply
\* the orders they fetched; every task that ends is counted by the barrier,
\* so that checkUpdate can return once the tasks of the cycle have ended.
C9_FetchFailureIsolated ==
  /\ [][\A t \in orderTasks \ orderTasks' :
          \/ tracker' = tracker /\ orderTasks' = orderTasks \ {t}
          \/ ~OrderTaskFail(t)]_vars
  /\ [][fetchFailed =>
          \A t \in orderTasks \ orderTasks' : \A orders \in FetchResults(tracker, t.sym) :
            AppliedAll(t, orders) \/ ~OrderTaskRun(t, orders)]_vars
  /\ [](wg = Cardinality(orderTasks))
  /\ []((schedPc = "wait" /\ orderTasks = {}) => ENABLED checkUpdateReturn)

C9_Witness ==
  /\ fetchFailed
  /\ schedPc = "select"
  /\ orderTasks = {}
  /\ \E id \in DOMAIN tracker :
       /\ tracker[id].Status = StatusCompleted
       /\ tracker[id].completedAt = Now

\* C10: when a sweep releases its token, the snapshot of every symbol whose
\* fetch failed is the one the sweep found when it started, and the snapshot
\* of every symbol whose fetch succeeded is the fetched one; a sweep whose
\* fetches have all ended, failed or not, can release the token.
C10_BookIsolation ==
  /\ [][\A s \in sweepers :
          SweepRelease(s) =>
            \A sym \in DOMAIN s.res :
              /\ s.res[sym].state = "failed" => book[sym] = s.pre[sym]
              /\ s.res[sym].state = "updated" => book[sym] = s.res[sym].snap]_vars
  /\ [](\A s \in Holders :
          (\A sym \in DOMAIN s.res : s.res[sym].state # "running") => ENABLED SweepRelease(s))

C10_Witness ==
  \E s \in Holders :
    /\ s.wg = 0
    /\ s.res["btc_usdt"].state = "failed"
    /\ s.res["eth_usdt"].state = "updated"
    /\ s.pre["btc_usdt"] # EmptySnapshot
    /\ book["btc_usdt"] = s.pre["btc_usdt"]
    /\ book["eth_usdt"] = s.res["eth_usdt"].snap
    /\ book["eth_usdt"] # s.pre["eth_usdt"]

\* C11: a stop signal offered while Update runs is eventually consumed, with
\* Update returned, provided the GetOrderByStatus calls in progress return;
\* the step that consumes the signal is the one that makes Update return; and
\* once Update has returned no tick is handled and no sweep goroutine starts.
C11_StopTerminates ==
  /\ (stopOffered ~> (schedPc = "returned" /\ ~stopOffered))
  /\ [][(stopOffered /\ ~stopOffered') => schedPc' = "returned"]_vars
  /\ [][schedPc = "returned" =>
          /\ schedPc' = "returned"
          /\ ticks' = ticks
          /\ orderTasks' \subseteq orderTasks
          /\ {s.cycle : s \in sweepers'} \subseteq {s.cycle : s \in sweepers}]_vars

C11_Witness ==
  /\ schedPc = "returned"
  /\ ~stopOffered
  /\ ticks = 1
  /\ orderTasks = {}

\* C12: at a venue that reports an order of this client as completed
\* (cancelled) for good, the order is eventually completed (cancelled) in the
\* Tracker, a completed one with a completion time that is not the zero time,
\* and stays so, whatever fetches of other pairs fail, provided the scheduler
\* keeps ticking and the fetches of the order's pair do not fail for ever.
ConvergedIn(trk, id) ==
  /\ trk[id].Status = VenueVerdict(trk[id])
  /\ trk[id].Status = StatusCompleted => trk[id].completedAt # ZeroTime

C12_ConvergesToVenue ==
  /\ \A id \in SweepIds :
       (id \in DOMAIN tracker) ~> (id \in DOMAIN tracker /\ ConvergedIn(tracker, id))
  /\ [][\A id \in DOMAIN tracker :
          ConvergedIn(tracker, id) => (id \in DOMAIN tracker' /\ ConvergedIn(tracker', id))]_vars

C12_Witness ==
  /\ fetchFailed
  /\ ticks = MaxTicks
  /\ \E t \in orderTasks : t.status = StatusCancelled
  /\ \E id \in DOMAIN tracker :
       /\ tracker[id].Action = ActionBuy
       /\ tracker[id].Status = StatusCompleted
       /\ tracker[id].completedAt = Now
       /\ tracker[id].createdAt # tracker[id].completedAt

\* the order is opened in the Tracker with the creation time the venue reports
OpenedAs(trk, o) ==
  /\ o.OrderID \in DOMAIN trk
  /\ trk[o.OrderID].Status = StatusOpened
  /\ trk[o.OrderID].createdAt = unixToTime(o.CreateDate)

\* C13: for an order that is opened in the Tracker, the case of the switch for
\* a report (id, opened, creation time) leaves it opened with that creation
\* time and adds no entry, and the same case applied to the result changes
\* nothing; a goroutine of (symbol, opened) whose fetch lists only orders that
\* are opened with the reported creation time leaves the Tracker as it was.
C13_OpenedIdempotent ==
  /\ [](\A sym \in AllowedSet : \A o \in VenueOrders(tracker, sym) :
          (o.OrderID \in DOMAIN tracker /\ tracker[o.OrderID].Status = StatusOpened) =>
            LET once == ApplyOrder(tracker, StatusOpened, sym, o, Now)
                twice == ApplyOrder(once, StatusOpened, sym, o, Now)
            IN /\ DOMAIN once = DOMAIN tracker
               /\ OpenedAs(once, o)
               /\ twice = once)
  /\ [][\/ tracker' = tracker
        \/ ~\E t \in orderTasks \ orderTasks' :
              /\ t.status = StatusOpened
              /\ \E orders \in FetchResults(tracker, t.sym) :
                   /\ \A i \in 1..Len(orders) : OpenedAs(tracker, orders[i])
                   /\ OrderTaskRun(t, orders)]_vars

C13_Witness ==
  /\ ticks = 2
  /\ schedPc = "wait"
  /\ ~fetchFailed
  /\ \A t \in orderTasks : t.status # StatusOpened
  /\ \E o \in VenueOrders(tracker, "btc_usdt") : OpenedAs(tracker, o)

\* C14: after a goroutine of (symbol, opened) or (symbol, partial) has
\* processed a fetched order that was live in the Tracker, the entry has the
\* status of the pair and the creation time the venue reported.
C14_UpsertsVenueStatus ==
  [][\A t \in orderTasks \ orderTasks' :
       t.status \in {StatusOpened, StatusPartial} =>
         \A orders \in FetchResults(tracker, t.sym) :
           OrderTaskRun(t, orders) =>
             \A i \in 1..Len(orders) :
               LET id == orders[i].OrderID IN
               (id \in DOMAIN tracker /\ tracker[id].Status \in Live) =>
                 /\ tracker'[id].Status = t.status
                 /\ tracker'[id].createdAt = unixToTime(orders[i].CreateDate)]_vars

SweepsOf(cycle) == {s \in sweepers : s.cycle = cycle}

\* C16: during one run of Update every tick with an OrderBookTracker starts a
\* sweep goroutine; a goroutine that finds the token taken stays as it is,
\* waiting; a goroutine that has the token has started one fetch for each
\* polled symbol; and, provided the GetOrderBook calls return, every goroutine
\* gets the token and then releases it, whether its fetches fail or not.
C16_SweepsSerialized ==
  /\ [][ticks' # ticks =>
          \E s \in sweepers' \ sweepers : s.cycle = ticks' /\ s.pc = "acquire"]_vars
  /\ [][\A s \in sweepers :
          (s.pc = "acquire" /\ sem = SemCap /\ run' = run) => s \in sweepers']_vars
  /\ [](\A s \in Holders : DOMAIN s.res = AllowedSet /\ s.wg <= Len(allowed))
  /\ \A cycle \in 1..MaxTicks :
       /\ (SweepsOf(cycle) # {}) ~> (\E s \in SweepsOf(cycle) : s.pc = "fetch")
       /\ (SweepsOf(cycle) # {}) ~> (SweepsOf(cycle) = {})

C16_Witness ==
  /\ sem = SemCap
  /\ \E w \in SweepsOf(1) : w.pc = "acquire"
  /\ \E s \in SweepsOf(2) :
       /\ s.pc = "fetch"
       /\ s.wg = 0
       /\ \A sym \in DOMAIN s.res : s.res[sym].state = "failed"

\* C17: during one run of Update, a step that changes the Order-Book Tracker
\* is the write of one successful fetch: it sets the snapshot of the fetched
\* symbol to exactly the bids and asks of that fetch and leaves every other
\* symbol alone; and the fetch that writes a symbol's snapshot never started
\* before the fetch whose result the snapshot held, whatever the fetches for
\* the other symbols are doing.
C17_LatestFetchWins ==
  /\ [][\A s \in sweepers, sym \in Symbols, orders \in Snapshots :
          \/ /\ book'[sym] = orders
             /\ \A other \in Symbols \ {sym} : book'[other] = book[other]
             /\ s.start >= 1
          \/ ~BookTaskUpdate(s, sym, orders)]_vars
  /\ [][book' # book =>
          \E s \in sweepers, sym \in Symbols, orders \in Snapshots :
            BookTaskUpdate(s, sym, orders)]_vars
  /\ [][\A sym \in Symbols : bookWriter'[sym] >= bookWriter[sym]]_vars

C17_Witness ==
  /\ bookWriter["btc_usdt"] = 2
  /\ bookWriter["eth_usdt"] = 1
  /\ book["btc_usdt"] \in Snapshots
  /\ book["eth_usdt"] \in Snapshots \ {book["btc_usdt"]}
  /\ \E s \in Holders : s.start = 2 /\ s.res["eth_usdt"].state = "running"

\* a book sweep that has not released the token, or not got it yet
BookSweepPending == sweepers # {}

\* C18: whatever the order-book sweep goroutines are doing, and with nothing
\* assumed about the return of a GetOrderBook call: checkUpdate can return as
\* soon as the order-status goroutines of the cycle are done, and does return;
\* the select of Update can take the next tick and an offered stop signal;
\* and every started GetOrderByStatus call can return.
C18_SchedulerNeverWaitsForBook ==
  /\ [](schedPc = "wait" /\ wg = 0 => ENABLED checkUpdateReturn)
  /\ [](schedPc = "select" /\ ticks < MaxTicks => ENABLED checkUpdate)
  /\ [](schedPc = "select" /\ stopOffered => ENABLED UpdateStop)
  /\ [](\A t \in orderTasks : ENABLED OrderTaskFail(t))
  /\ (schedPc = "wait") ~> (schedPc = "select")
  /\ (schedPc = "wait" /\ BookSweepPending) ~> (schedPc = "select" /\ orderTasks = {})

C18_Witness ==
  /\ schedPc = "select"
  /\ ticks = 2
  /\ orderTasks = {}
  /\ \E s \in Holders : s.cycle = 1 /\ s.res["btc_usdt"].state = "running"
  /\ \E w \in sweepers : w.cycle = 2 /\ w.pc = "acquire"

\* C19: the step in which the select of Update consumes the stop signal leaves
\* every order-book sweep goroutine as it is; once Update has returned (and is
\* not called again) a sweep goroutine goes on only by its own steps, each
\* running fetch of a holder can still write its snapshot, and a goroutine
\* leaves only by its release; and, provided the GetOrderBook calls return,
\* every goroutine left over gets the token, finishes and gives the token back.
C19_DrainAfterStop ==
  /\ [][sweepers' = sweepers \/ ~UpdateStop]_vars
  /\ [][\/ schedPc # "returned"
        \/ sweepers' = sweepers
        \/ \E s \in sweepers : SweepAcquire(s) \/ SweepRelease(s)
        \/ BookFetchReturns]_vars
  /\ [][schedPc = "returned" =>
          \A s \in sweepers \ sweepers' :
            \/ s.pc = "acquire" /\ \E h \in Holders' : h.cycle = s.cycle
            \/ s.pc = "fetch" /\ \E h \in sweepers' : h.cycle = s.cycle /\ h.wg = s.wg - 1
            \/ s.pc = "fetch" /\ s.wg = 0 /\ sem' = sem - 1]_vars
  /\ [](schedPc = "returned" =>
          \A s \in Holders :
            \A sym \in DOMAIN s.res :
              s.res[sym].state = "running" =>
                \A orders \in Snapshots : ENABLED BookTaskUpdate(s, sym, orders))
  /\ (schedPc = "returned" /\ BookSweepPending) ~> (~BookSweepPending /\ sem = 0)

C19_Witness ==
  /\ schedPc = "returned"
  /\ ~stopOffered
  /\ \E s \in Holders : s.res["btc_usdt"].state = "updated" /\ s.res["eth_usdt"].state = "running"
  /\ \E w \in sweepers : w.pc = "acquire"

\* C20: when Update is called again after it has returned, at most one
\* order-book sweep goroutine is between its send on c.sem and its receive,
\* the receive of a sweep takes the token out of the channel its send put it
\* in, and a sweep whose fetches are all done finds a token to receive.
C20_TokenSurvivesRestart ==
  /\ [](Cardinality(Holders) <= 1)
  /\ [][\A s \in sweepers :
          SweepRelease(s) => SemCount(s.ch)' = SemCount(s.ch) - 1]_vars
  /\ [](\A s \in Holders : s.wg = 0 => ENABLED SweepRelease(s))

====
